---- MODULE Spec2Model ----
(***************************************************************************)
(* redis-key-scanner: the scan pipeline of src/unnamed/part_004 (index.js) *)
(* as a state machine.  One scanner object; the redis client, its          *)
(* scanStream and its pipelines are the environment: they deliver batches, *)
(* settle pipeline.exec() promises and report connection errors.           *)
(* Every action is one turn of the node.js event loop: a handler and the   *)
(* promise reactions (microtasks) that it triggers run to completion.      *)
(***************************************************************************)
EXTENDS Integers, Sequences, FiniteSets, TLC

VARIABLES
  scanner,           \* the constructor call: "new", "threw" (a TypeError), "scanning"
  rawOptions,        \* the argument of the constructor
  redis,             \* the connection connect() asked the client for
  reachable,         \* whether the store answers at the configured address
  batches,           \* the sizes of the batches the scanStream has delivered
  options,           \* the sanitized options (immutable during a scan)
  keyspace,          \* what the store holds: per key the metadata it answers
  cursor,            \* number of keys the scanStream has delivered so far
  stream,            \* scanStream: "none", "flowing", "drained", "paused", "ended"
  pipelinePromises,  \* one promise per dispatched pipeline.exec()
  endScanCalled,     \* the _.once latch of endScan
  allState,          \* Promise.all(pipelinePromises): "none", "pending", "settled"
  awaited,           \* how many promises Promise.all was handed
  atSelectLimit,     \* the selection-limit latch
  keysScanned,
  keysSelected,
  errorEmitted,      \* the _.once latch of the redis 'error' handler
  events             \* every event the scanner has emitted, in order

vars == <<scanner, rawOptions, redis, reachable, batches, options, keyspace, cursor, stream, pipelinePromises, endScanCalled,
          allState, awaited, atSelectLimit, keysScanned, keysSelected,
          errorEmitted, events>>

----------------------------------------------------------------------------
(* Bounds of the model *)

MaxKeys == 3     \* keys in the keyspace; also the largest finite limit / scanLimit
MaxIdle == 2     \* largest idletime / idle bound of the selector universe
MaxTTL == 1      \* largest ttl / ttl bound of the selector universe

(* defaults.scanLimit: larger than every count the model reaches, so that
   keysScanned >= Infinity is false for every keysScanned. *)
Infinity == 1000000

(* defaults.limit and defaults.scanBatch *)
DefaultLimit == 1000
DefaultScanBatch == 1000

(* The number NaN, as Number() and timeframeToSeconds() answer it for what
   they cannot convert. *)
NaN == 0 - 1000

(* OBJECT IDLETIME of a key that no longer exists answers null; TTL of such a
   key answers -2, of a key without expiry -1. *)
Null == 0 - 1
NoKeyTTL == 0 - 2
NoExpiryTTL == 0 - 1

(* An option that may be absent is a set: {} when the option is not a property
   of the options object, {v} when it is present with value v. *)
isUndefined(opt) == opt = {}
has(opt) == opt # {}

(* Mutant: noExpiry alone does not make the scan ask for TTLs. *)
checkTTL_BoundsOnly(o) == has(o.maxTTL) \/ has(o.minTTL)

(* options.checkTTL *)
checkTTL(o) == has(o.noExpiry) \/ has(o.maxTTL) \/ has(o.minTTL)

(* JavaScript relational comparison of the enrichment result with a number:
   null converts to 0. *)
ToNumber(v) == IF v = Null THEN 0 ELSE v

----------------------------------------------------------------------------
(* sanitizeOptions and connect.  The raw options are a record of the
   properties the caller passed, each a set ({} absent, {v} present); a
   timeframe is [n, unit], a bare number of seconds having the unit "". *)

(* Number(options.port) *)
NumberOf(str) ==
  CASE str = "6379" -> 6379
    [] str = "80" -> 80
    [] OTHER -> NaN

(* timeframeToSeconds: <number><unit> with unit s, m, h, d or w; NaN for
   anything else. *)
TimeframeToSeconds(t) ==
  CASE t.unit = "" -> t.n
    [] t.unit = "s" -> t.n
    [] t.unit = "m" -> t.n * 60
    [] t.unit = "h" -> t.n * 3600
    [] t.unit = "d" -> t.n * 86400
    [] t.unit = "w" -> t.n * 604800
    [] OTHER -> NaN

(* Mutant: the converted timeframes are not tested for NaN. *)
sanitizeThrows_NoTimeframeCheck(r) ==
  \/ ~r.given
  \/ r.host = {}
  \/ r.port = {}
  \/ \E q \in r.port : NumberOf(q) = NaN \/ NumberOf(q) = 0
  \/ \E v \in r.scanBatch \cup r.scanLimit \cup r.limit : v = NaN
  \/ r.foo

(* Whether sanitizeOptions throws its TypeError (or, for a missing argument,
   the TypeError of reading options.host of undefined). *)
sanitizeThrows(r) ==
  \/ ~r.given
  \/ r.host = {}
  \/ r.port = {}
  \/ \E q \in r.port : NumberOf(q) = NaN \/ NumberOf(q) = 0
  \/ \E t \in r.maxIdle \cup r.maxTTL \cup r.minIdle \cup r.minTTL :
        TimeframeToSeconds(t) = NaN
  \/ \E v \in r.scanBatch \cup r.scanLimit \cup r.limit : v = NaN
  \/ r.foo

(* Mutant: a missing limit stays unbounded, as a missing scanLimit does. *)
sanitizeOptions_UnboundedLimit(r) ==
  [limit |-> IF r.limit = {} THEN Infinity ELSE CHOOSE v \in r.limit : TRUE,
   scanLimit |-> IF r.scanLimit = {} THEN Infinity ELSE CHOOSE v \in r.scanLimit : TRUE,
   scanBatch |-> IF r.scanBatch = {} THEN DefaultScanBatch
                 ELSE CHOOSE v \in r.scanBatch : TRUE,
   maxIdle |-> {TimeframeToSeconds(t) : t \in r.maxIdle},
   maxTTL |-> {TimeframeToSeconds(t) : t \in r.maxTTL},
   minIdle |-> {TimeframeToSeconds(t) : t \in r.minIdle},
   minTTL |-> {TimeframeToSeconds(t) : t \in r.minTTL},
   noExpiry |-> r.noExpiry,
   password |-> r.password]

(* The options sanitizeOptions returns when it does not throw. *)
sanitizeOptions(r) ==
  [limit |-> IF r.limit = {} THEN DefaultLimit ELSE CHOOSE v \in r.limit : TRUE,
   scanLimit |-> IF r.scanLimit = {} THEN Infinity ELSE CHOOSE v \in r.scanLimit : TRUE,
   scanBatch |-> IF r.scanBatch = {} THEN DefaultScanBatch
                 ELSE CHOOSE v \in r.scanBatch : TRUE,
   maxIdle |-> {TimeframeToSeconds(t) : t \in r.maxIdle},
   maxTTL |-> {TimeframeToSeconds(t) : t \in r.maxTTL},
   minIdle |-> {TimeframeToSeconds(t) : t \in r.minIdle},
   minTTL |-> {TimeframeToSeconds(t) : t \in r.minTTL},
   noExpiry |-> r.noExpiry,
   password |-> r.password]

NoRedis == [mode |-> "none", role |-> "none", status |-> "none", password |-> {}]

(* connect: with a master name the sentinel options are built from
   this.options.redisMaster, and this.options is undefined on the scanner
   under construction, so reading it throws a TypeError before the client is
   created; the options it was building ask for role 'master'.  Without a
   master name the client connects to host:port. *)
connectThrows(r) == r.redisMaster # {}

connect(r) ==
  IF r.redisMaster # {}
  THEN [mode |-> "sentinel", role |-> "master", status |-> "open",
        password |-> r.password]
  ELSE [mode |-> "direct", role |-> "none", status |-> "open",
        password |-> r.password]

----------------------------------------------------------------------------
(* selectKey *)

(* Mutant: no-expiry treated as advisory, its clause left out. *)
selectKey_NoExpiryAdvisory(idletime, ttl, latch, o) ==
  /\ ~latch
  /\ (isUndefined(o.maxIdle) \/ \A b \in o.maxIdle : ToNumber(idletime) <= b)
  /\ (isUndefined(o.maxTTL) \/ \A b \in o.maxTTL : ttl <= b)
  /\ (isUndefined(o.minIdle) \/ \A b \in o.minIdle : ToNumber(idletime) >= b)
  /\ (isUndefined(o.minTTL) \/ \A b \in o.minTTL : ttl >= b)

selectKey(idletime, ttl, latch, o) ==
  /\ ~latch
  /\ (isUndefined(o.maxIdle) \/ \A b \in o.maxIdle : ToNumber(idletime) <= b)
  /\ (isUndefined(o.maxTTL) \/ \A b \in o.maxTTL : ttl <= b)
  /\ (isUndefined(o.minIdle) \/ \A b \in o.minIdle : ToNumber(idletime) >= b)
  /\ (isUndefined(o.minTTL) \/ \A b \in o.minTTL : ttl >= b)
  /\ (~has(o.noExpiry) \/ (\A b \in o.noExpiry : b /\ ttl = NoExpiryTTL))

----------------------------------------------------------------------------
(* The events the scanner emits *)

(* An event that echoes no options. *)
NoEcho == [f \in {} |-> {}]

(* Mutant: the summary echoes the options as they are. *)
Omit_Nothing(o, key) == o

(* _.omit(options, 'password') *)
Omit(o, key) == [f \in DOMAIN o \ {key} |-> o[f]]

RecordEvent(key, idletime, ttl, o) ==
  [type |-> "record", key |-> key, idletime |-> idletime,
   ttl |-> IF checkTTL(o) THEN {ttl} ELSE {},
   keysScanned |-> 0, keysSelected |-> 0, error |-> FALSE, echo |-> NoEcho]

(* Mutant: the summary never carries the error of a failed round trip. *)
SummaryEvent_NoError(scanned, selected, err) ==
  [type |-> "summary", key |-> 0, idletime |-> 0, ttl |-> {},
   keysScanned |-> scanned, keysSelected |-> selected, error |-> FALSE,
   echo |-> Omit(options, "password")]

SummaryEvent(scanned, selected, err) ==
  [type |-> "summary", key |-> 0, idletime |-> 0, ttl |-> {},
   keysScanned |-> scanned, keysSelected |-> selected, error |-> err,
   echo |-> Omit(options, "password")]

EndEvent ==
  [type |-> "end", key |-> 0, idletime |-> 0, ttl |-> {},
   keysScanned |-> 0, keysSelected |-> 0, error |-> FALSE, echo |-> NoEcho]

ErrorEvent ==
  [type |-> "error", key |-> 0, idletime |-> 0, ttl |-> {},
   keysScanned |-> 0, keysSelected |-> 0, error |-> TRUE, echo |-> NoEcho]

----------------------------------------------------------------------------
(* The completion callback of one pipeline: _.each(batchKeys, ...) over the
   keys first .. first+n-1 of the keyspace.  st = [sel, latch, out]. *)

(* What exec() resolves to for the batch of the n keys from key first: the
   replies in the order of the commands, one per key, or two per key
   (idletime, ttl) when options.checkTTL. *)
Replies(first, n, o) ==
  IF checkTTL(o)
  THEN [j \in 1..(2 * n) |->
          IF j % 2 = 1 THEN keyspace[first + (j - 1) \div 2].idletime
          ELSE keyspace[first + (j - 1) \div 2].ttl]
  ELSE [j \in 1..n |-> keyspace[first + j - 1].idletime]

(* Mutant: one reply per key is assumed whatever the pipeline asked. *)
idleIdx_OnePerKey(i, o) == i

(* const idleIdx = options.checkTTL ? i * 2 : i (counted from 0) *)
idleIdx(i, o) == IF checkTTL(o) THEN i * 2 ELSE i

(* results[idleIdx][1] *)
Idletime(results, i, o) == results[idleIdx(i, o) + 1]

(* options.checkTTL && results[idleIdx + 1][1]: false without checkTTL, which
   no clause of selectKey reads then and no record carries; false compares
   as 0. *)
Ttl(results, i, o) == IF checkTTL(o) THEN results[idleIdx(i, o) + 2] ELSE 0

(* Mutant: the latch is set one selection late. *)
Latch_Late(selected, o) == selected > o.limit

(* atSelectLimit = keysSelected >= options.limit *)
Latch(selected, o) == selected >= o.limit

RECURSIVE EachKey(_, _, _, _, _)

(* Mutant: the callback stops at the key that reaches scanLimit. *)
EachKey_WithinScanLimit(first, n, i, st, o) ==
  IF i >= n \/ first + i > o.scanLimit THEN st
  ELSE LET key == first + i
           idletime == Idletime(Replies(first, n, o), i, o)
           ttl == Ttl(Replies(first, n, o), i, o)
       IN IF selectKey(idletime, ttl, st.latch, o)
          THEN EachKey(first, n, i + 1,
                       [sel |-> st.sel + 1,
                        latch |-> Latch(st.sel + 1, o),
                        out |-> Append(st.out, RecordEvent(key, idletime, ttl, o))],
                       o)
          ELSE EachKey(first, n, i + 1, st, o)

(* Mutant: the records of a batch are written last key first. *)
EachKey_Reversed(first, n, i, st, o) ==
  IF i >= n THEN st
  ELSE LET key == first + i
           idletime == Idletime(Replies(first, n, o), i, o)
           ttl == Ttl(Replies(first, n, o), i, o)
       IN IF selectKey(idletime, ttl, st.latch, o)
          THEN EachKey(first, n, i + 1,
                       [sel |-> st.sel + 1,
                        latch |-> Latch(st.sel + 1, o),
                        out |-> <<RecordEvent(key, idletime, ttl, o)>> \o st.out],
                       o)
          ELSE EachKey(first, n, i + 1, st, o)

EachKey(first, n, i, st, o) ==
  IF i >= n THEN st
  ELSE LET key == first + i
           idletime == Idletime(Replies(first, n, o), i, o)
           ttl == Ttl(Replies(first, n, o), i, o)
       IN IF selectKey(idletime, ttl, st.latch, o)
          THEN EachKey(first, n, i + 1,
                       [sel |-> st.sel + 1,
                        latch |-> Latch(st.sel + 1, o),
                        out |-> Append(st.out, RecordEvent(key, idletime, ttl, o))],
                       o)
          ELSE EachKey(first, n, i + 1, st, o)

----------------------------------------------------------------------------
(* Promise.all(pipelinePromises) and the reactions chained on it *)

AllFulfilled(pp, k) == \A i \in 1..k : pp[i].state = "fulfilled"
AnyRejected(pp, k) == \E i \in 1..k : pp[i].state = "rejected"

(* Mutant: Promise.race in place of Promise.all, settling with the first
   promise that settles. *)
AllSettles_Race(pp, k) == k = 0 \/ \E i \in 1..k : pp[i].state # "pending"

(* Promise.all settles when every promise it was handed is fulfilled, or as
   soon as one of them is rejected. *)
AllSettles(pp, k) == AllFulfilled(pp, k) \/ AnyRejected(pp, k)

(* The end of a turn of the event loop: if endScan has been called and its
   Promise.all settles, the summary is written and the stream is ended. *)
Drain(all, pp, k, ev, scanned, selected) ==
  IF all = "pending" /\ AllSettles(pp, k)
  THEN [all |-> "settled",
        ev |-> ev \o <<SummaryEvent(scanned, selected, AnyRejected(pp, k)), EndEvent>>]
  ELSE [all |-> all, ev |-> ev]

(* endScan = _.once(...): the first call hands the current promises to
   Promise.all; later calls do nothing. *)
EndScanAll(called, all) == IF called THEN all ELSE "pending"

(* Mutant: endScan hands Promise.all an empty list. *)
EndScanAwaited_None(called, k, pp) == IF called THEN k ELSE 0

EndScanAwaited(called, k, pp) == IF called THEN k ELSE Len(pp)

----------------------------------------------------------------------------
(* The first lines of the 'data' handler *)

(* Mutant: the batch is not counted. *)
Scanned_Uncounted(scanned, n) == scanned

(* Mutant: the scanned counter counts batches, not keys. *)
Scanned_PerBatch(scanned, n) == scanned + 1

(* keysScanned += batchKeys.length *)
Scanned(scanned, n) == scanned + n

(* The pipeline built for a batch of n keys starting at key first: per key
   one OBJECT IDLETIME and, when options.checkTTL, one TTL; exec() sends it as
   one round trip. *)
Pipeline(first, n, o) ==
  [first |-> first, n |-> n, state |-> "pending",
   idle |-> n, ttl |-> IF checkTTL(o) THEN n ELSE 0]

----------------------------------------------------------------------------
(* The limit check that closes the 'data' handler *)

(* Mutant: the limit check leaves the select-limit latch out. *)
atLimit_ScanLimitOnly(latch, scanned, o) == scanned >= o.scanLimit

(* Mutant: the scan-limit compared with > in place of >=. *)
atLimit_Strict(latch, scanned, o) == latch \/ scanned > o.scanLimit

atLimit(latch, scanned, o) == latch \/ scanned >= o.scanLimit

----------------------------------------------------------------------------
(* Initial states *)

Bounds(S) == {{}} \cup {{b} : b \in S}

KeyMeta(I, T) == [idletime : I, ttl : T]

SeqsUpTo(S, n) == UNION {[1..k -> S] : k \in 0..n}

(* The page sizes of the scans explored. *)
ScanBatches == {1, 2}

ScanKinds == {[idletime |-> 0, ttl |-> NoExpiryTTL], [idletime |-> 1, ttl |-> 1]}

ScanOptions ==
  [limit : 0..MaxKeys,
   scanLimit : (0..MaxKeys) \cup {Infinity},
   scanBatch : ScanBatches,
   maxIdle : {{}},
   maxTTL : {{}},
   minIdle : {{}},
   minTTL : {{}},
   noExpiry : Bounds({TRUE}),
   password : {{}}]

SelectorOptions ==
  [limit : {1},
   scanLimit : {Infinity},
   scanBatch : {1},
   maxIdle : Bounds(0..MaxIdle),
   maxTTL : Bounds(NoExpiryTTL..MaxTTL),
   minIdle : Bounds(0..MaxIdle),
   minTTL : Bounds(NoExpiryTTL..MaxTTL),
   noExpiry : Bounds(BOOLEAN),
   password : {{}}]

(* The raw options that sanitize to the options o, for a server at
   localhost:6379. *)
RawOf(o) ==
  [given |-> TRUE, host |-> {"localhost"}, port |-> {"6379"},
   maxIdle |-> {[n |-> b, unit |-> ""] : b \in o.maxIdle},
   maxTTL |-> {[n |-> b, unit |-> ""] : b \in o.maxTTL},
   minIdle |-> {[n |-> b, unit |-> ""] : b \in o.minIdle},
   minTTL |-> {[n |-> b, unit |-> ""] : b \in o.minTTL},
   noExpiry |-> o.noExpiry,
   password |-> o.password,
   limit |-> {o.limit}, scanLimit |-> {o.scanLimit}, scanBatch |-> {o.scanBatch},
   foo |-> FALSE, redisMaster |-> {}]

(* A scanner whose construction has returned, connected to a store that
   answers. *)
Constructed ==
  /\ scanner = "scanning"
  /\ rawOptions = RawOf(options)
  /\ redis = connect(rawOptions)
  /\ reachable = TRUE

InitScanner ==
  /\ batches = <<>>
  /\ cursor = 0
  /\ stream = "flowing"
  /\ pipelinePromises = <<>>
  /\ endScanCalled = FALSE
  /\ allState = "none"
  /\ awaited = 0
  /\ atSelectLimit = FALSE
  /\ keysScanned = 0
  /\ keysSelected = 0
  /\ errorEmitted = FALSE
  /\ events = <<>>

Init ==
  /\ options \in ScanOptions
  /\ keyspace \in SeqsUpTo(ScanKinds, MaxKeys)
  /\ Constructed
  /\ InitScanner

InitSelector ==
  /\ options \in SelectorOptions
  /\ keyspace \in SeqsUpTo(KeyMeta({Null} \cup (0..MaxIdle), NoKeyTTL..MaxTTL), 1)
  /\ Constructed
  /\ InitScanner

----------------------------------------------------------------------------
(* Actions *)

(* Mutant: the handler is not wrapped in _.once, every 'error' of the client
   is passed on (two of them explored). *)
RedisError_EveryTime ==
  /\ redis.mode # "none"
  /\ Cardinality({i \in DOMAIN events : events[i].type = "error"}) < 2
  /\ errorEmitted' = TRUE
  /\ events' = Append(events, ErrorEvent)
  /\ UNCHANGED <<scanner, rawOptions, redis, reachable, batches, options, keyspace,
                 cursor, stream, pipelinePromises, endScanCalled, allState, awaited,
                 atSelectLimit, keysScanned, keysSelected>>

(* Mutant: the client's 'error' event is not passed on. *)
RedisError_Swallowed ==
  /\ redis.mode # "none"
  /\ errorEmitted' = TRUE
  /\ UNCHANGED <<scanner, rawOptions, redis, reachable, batches, options, keyspace,
                 cursor, stream, pipelinePromises, endScanCalled, allState, awaited,
                 atSelectLimit, keysScanned, keysSelected, events>>

(* redis.on('error', _.once(err => self.emit('error', err))): the client
   reports a connection failure.  The handler changes nothing of the scan,
   and the client keeps the connection alive by reconnecting, so the other
   actions stay enabled. *)
RedisError ==
  /\ redis.mode # "none"
  /\ errorEmitted' = TRUE
  /\ events' = IF errorEmitted THEN events ELSE Append(events, ErrorEvent)
  /\ UNCHANGED <<scanner, rawOptions, redis, reachable, batches, options, keyspace,
                 cursor, stream, pipelinePromises, endScanCalled, allState, awaited,
                 atSelectLimit, keysScanned, keysSelected>>

(* scanStream.on('data', batchKeys => ...): a batch of n keys; last tells
   that the store answered with cursor 0. *)
Data(n, last) ==
  /\ stream = "flowing"
  /\ reachable
  /\ cursor + n <= Len(keyspace)
  /\ n <= options.scanBatch
  /\ (n = 0 => last)
  /\ (last => cursor + n = Len(keyspace))
  /\ LET scanned == Scanned(keysScanned, n)
         pp == Append(pipelinePromises, Pipeline(cursor + 1, n, options))
         stop == atLimit(atSelectLimit, scanned, options)
         all == IF stop THEN EndScanAll(endScanCalled, allState) ELSE allState
         k == IF stop THEN EndScanAwaited(endScanCalled, awaited, pp) ELSE awaited
         d == Drain(all, pp, k, events, scanned, keysSelected)
     IN /\ keysScanned' = scanned
        /\ cursor' = cursor + n
        /\ pipelinePromises' = pp
        /\ stream' = IF stop THEN "paused" ELSE IF last THEN "drained" ELSE "flowing"
        /\ endScanCalled' = (endScanCalled \/ stop)
        /\ awaited' = k
        /\ allState' = d.all
        /\ events' = d.ev
  /\ batches' = Append(batches, n)
  /\ UNCHANGED <<scanner, rawOptions, redis, reachable, options, keyspace,
                 atSelectLimit, keysSelected, errorEmitted>>

(* Mutant: the 'end' of the scanStream does not call endScan. *)
End_NoEndScan ==
  /\ stream = "drained"
  /\ stream' = "ended"
  /\ UNCHANGED <<scanner, rawOptions, redis, reachable, batches, options, keyspace,
                 cursor, pipelinePromises, endScanCalled, allState, awaited,
                 atSelectLimit, keysScanned, keysSelected, errorEmitted, events>>

(* scanStream.on('end', endScan) *)
End ==
  /\ stream = "drained"
  /\ LET all == EndScanAll(endScanCalled, allState)
         k == EndScanAwaited(endScanCalled, awaited, pipelinePromises)
         d == Drain(all, pipelinePromises, k, events, keysScanned, keysSelected)
     IN /\ stream' = "ended"
        /\ endScanCalled' = TRUE
        /\ awaited' = k
        /\ allState' = d.all
        /\ events' = d.ev
  /\ UNCHANGED <<scanner, rawOptions, redis, reachable, batches, options, keyspace,
                 cursor, pipelinePromises, atSelectLimit, keysScanned, keysSelected,
                 errorEmitted>>

(* pipeline.exec() of promise p is fulfilled: the completion callback runs
   over the keys of its batch. *)
ExecFulfilled(p) ==
  /\ pipelinePromises[p].state = "pending"
  /\ LET op == pipelinePromises[p]
         st == EachKey(op.first, op.n, 0,
                       [sel |-> keysSelected, latch |-> atSelectLimit, out |-> <<>>],
                       options)
         pp == [pipelinePromises EXCEPT ![p].state = "fulfilled"]
         d == Drain(allState, pp, awaited, events \o st.out, keysScanned, st.sel)
     IN /\ keysSelected' = st.sel
        /\ atSelectLimit' = st.latch
        /\ pipelinePromises' = pp
        /\ allState' = d.all
        /\ events' = d.ev
  /\ UNCHANGED <<scanner, rawOptions, redis, reachable, batches, options, keyspace,
                 cursor, stream, endScanCalled, awaited, keysScanned, errorEmitted>>

(* pipeline.exec() of promise p is rejected: the completion callback does
   not run. *)
ExecRejected(p) ==
  /\ pipelinePromises[p].state = "pending"
  /\ LET pp == [pipelinePromises EXCEPT ![p].state = "rejected"]
         d == Drain(allState, pp, awaited, events, keysScanned, keysSelected)
     IN /\ pipelinePromises' = pp
        /\ allState' = d.all
        /\ events' = d.ev
  /\ UNCHANGED <<scanner, rawOptions, redis, reachable, batches, options, keyspace,
                 cursor, stream, endScanCalled, awaited, atSelectLimit, keysScanned,
                 keysSelected, errorEmitted>>

(* The sizes a batch can have: COUNT scanBatch at most, and no more keys
   than there are. *)
BatchSizes ==
  0..(IF options.scanBatch <= Len(keyspace) THEN options.scanBatch ELSE Len(keyspace))

Next ==
  \/ RedisError
  \/ \E n \in BatchSizes, last \in BOOLEAN : Data(n, last)
  \/ End
  \/ \E p \in DOMAIN pipelinePromises : ExecFulfilled(p)
  \/ \E p \in DOMAIN pipelinePromises : ExecRejected(p)

Spec == Init /\ [][Next]_vars

SelectorSpec == InitSelector /\ [][Next]_vars

(* The store answers: the scanStream delivers its batches and its end, and
   a pending pipeline is fulfilled. *)
Answered ==
  \/ \E n \in BatchSizes, last \in BOOLEAN : Data(n, last)
  \/ End
  \/ \E p \in DOMAIN pipelinePromises : ExecFulfilled(p)

LiveSpec == Init /\ [][Next]_vars /\ WF_vars(Answered)

(* The scans of the test 'even when limit is greater than scan-limit': four
   keys, limit 3, with and without scanLimit 2, delivered in one batch or
   in batches of two. *)
ScenarioKeys == 4
ScenarioLimit == 3
ScenarioScanLimit == 2

InitScenario ==
  /\ options \in [limit : {ScenarioLimit},
                   scanLimit : {ScenarioScanLimit, Infinity},
                   scanBatch : {ScenarioScanLimit, ScenarioKeys},
                   maxIdle : {{}}, maxTTL : {{}}, minIdle : {{}}, minTTL : {{}},
                   noExpiry : Bounds({TRUE}),
                   password : {{}}]
  /\ keyspace \in [1..ScenarioKeys -> ScanKinds]
  /\ Constructed
  /\ InitScanner

ScenarioSpec == InitScenario /\ [][Next]_vars

(* Scans of a store that asks for a password, and of one that does not. *)
Passwords == {"secret", "hunter2"}

InitPassword ==
  /\ options \in [limit : {1, 2},
                   scanLimit : {2, Infinity},
                   scanBatch : ScanBatches,
                   maxIdle : {{}}, maxTTL : {{}}, minIdle : {{}}, minTTL : {{}},
                   noExpiry : Bounds({TRUE}),
                   password : Bounds(Passwords)]
  /\ keyspace \in SeqsUpTo(ScanKinds, 2)
  /\ Constructed
  /\ InitScanner

PasswordSpec == InitPassword /\ [][Next]_vars

----------------------------------------------------------------------------
(* Construction: new RedisKeyScanner(rawOptions) *)

Timeframes == {[n |-> 1, unit |-> "s"], [n |-> 1, unit |-> "m"], [n |-> 0, unit |-> "foo"]}

RawOptions ==
  [given : {TRUE},
   host : Bounds({"localhost"}),
   port : Bounds({"6379", "abc"}),
   maxIdle : Bounds(Timeframes),
   maxTTL : Bounds({[n |-> 1, unit |-> "s"], [n |-> 0, unit |-> "w"]}),
   minIdle : Bounds({[n |-> 1, unit |-> ""], [n |-> 1, unit |-> "true"]}),
   minTTL : Bounds({[n |-> 0, unit |-> "s"], [n |-> 0, unit |-> "null"]}),
   noExpiry : Bounds({TRUE}),
   password : {{}},
   limit : Bounds({1, NaN}),
   scanLimit : {{}},
   scanBatch : {{}},
   foo : BOOLEAN,
   redisMaster : Bounds({"mymaster"})]

(* new RedisKeyScanner() without an argument *)
NoArgument ==
  [given |-> FALSE, host |-> {}, port |-> {}, maxIdle |-> {}, maxTTL |-> {},
   minIdle |-> {}, minTTL |-> {}, noExpiry |-> {}, password |-> {}, limit |-> {},
   scanLimit |-> {},
   scanBatch |-> {}, foo |-> FALSE, redisMaster |-> {}]

(* The defaults object, all there is of the options before construction. *)
Defaults ==
  [limit |-> DefaultLimit, scanLimit |-> Infinity, scanBatch |-> DefaultScanBatch,
   maxIdle |-> {}, maxTTL |-> {}, minIdle |-> {}, minTTL |-> {}, noExpiry |-> {},
   password |-> {}]

(* The largest keyspace of the constructed scans. *)
ConstructKeys == 2

InitConstruct ==
  /\ scanner = "new"
  /\ rawOptions \in RawOptions \cup {NoArgument}
  /\ redis = NoRedis
  /\ reachable \in BOOLEAN
  /\ options = Defaults
  /\ keyspace \in SeqsUpTo(ScanKinds, ConstructKeys)
  /\ batches = <<>>
  /\ cursor = 0
  /\ stream = "none"
  /\ pipelinePromises = <<>>
  /\ endScanCalled = FALSE
  /\ allState = "none"
  /\ awaited = 0
  /\ atSelectLimit = FALSE
  /\ keysScanned = 0
  /\ keysSelected = 0
  /\ errorEmitted = FALSE
  /\ events = <<>>

(* Mutant: a store that cannot be reached makes the constructor emit the
   error before it returns. *)
Construct_EmitsError ==
  /\ scanner = "new"
  /\ IF sanitizeThrows(rawOptions) \/ connectThrows(rawOptions)
     THEN /\ scanner' = "threw"
          /\ UNCHANGED <<redis, options, stream, errorEmitted, events>>
     ELSE /\ scanner' = "scanning"
          /\ options' = sanitizeOptions(rawOptions)
          /\ redis' = connect(rawOptions)
          /\ stream' = "flowing"
          /\ errorEmitted' = ~reachable
          /\ events' = IF reachable THEN events ELSE <<ErrorEvent>>
  /\ UNCHANGED <<rawOptions, reachable, batches, keyspace, cursor, pipelinePromises,
                 endScanCalled, allState, awaited, atSelectLimit, keysScanned,
                 keysSelected>>

(* function RedisKeyScanner(rawOptions): sanitizeOptions, connect, scan.  A
   throw leaves nothing behind: no client, no scanStream, no listener. *)
Construct ==
  /\ scanner = "new"
  /\ IF sanitizeThrows(rawOptions) \/ connectThrows(rawOptions)
     THEN /\ scanner' = "threw"
          /\ UNCHANGED <<redis, options, stream>>
     ELSE /\ scanner' = "scanning"
          /\ options' = sanitizeOptions(rawOptions)
          /\ redis' = connect(rawOptions)
          /\ stream' = "flowing"
  /\ UNCHANGED <<rawOptions, reachable, batches, keyspace, cursor, pipelinePromises,
                 endScanCalled, allState, awaited, atSelectLimit, keysScanned,
                 keysSelected, errorEmitted, events>>

NextConstruct ==
  \/ Construct
  \/ Next

ConstructSpec == InitConstruct /\ [][NextConstruct]_vars

(* A store that cannot be reached makes the client report an error. *)
LiveConstructSpec ==
  /\ InitConstruct
  /\ [][NextConstruct]_vars
  /\ WF_vars(Construct)
  /\ WF_vars(~reachable /\ RedisError)

----------------------------------------------------------------------------
(* Observations used by the properties *)

Indices(t) == {i \in DOMAIN events : events[i].type = t}

Emitted(t) == Indices(t) # {}

TheSummary == events[CHOOSE i \in Indices("summary") : TRUE]

Rejected == {p \in DOMAIN pipelinePromises : pipelinePromises[p].state = "rejected"}

Pending == {p \in DOMAIN pipelinePromises : pipelinePromises[p].state = "pending"}

(* No connection error was reported and no enrichment round trip failed. *)
NoFailure == ~errorEmitted /\ Rejected = {}

(* The keys of the keyspace that satisfy the selection predicate. *)
Matching ==
  {k \in DOMAIN keyspace :
     selectKey(keyspace[k].idletime, keyspace[k].ttl, FALSE, options)}

Max(a, b) == IF a >= b THEN a ELSE b

(* The sole key of a selector scan has been evaluated. *)
Evaluated ==
  /\ Len(keyspace) = 1
  /\ Len(pipelinePromises) = 1
  /\ pipelinePromises[1].state = "fulfilled"

Selected(k) == \E i \in Indices("record") : events[i].key = k

----------------------------------------------------------------------------
(* C1: with select-limit N (N = 0 included) and no scan-limit, a scan that
   meets no failure over a keyspace with at least N matching keys emits
   exactly N record events and its summary reports keysSelected = N. *)
C1_ExactlyLimitRecords ==
  (/\ Emitted("summary")
   /\ NoFailure
   /\ options.scanLimit = Infinity
   /\ Cardinality(Matching) >= options.limit)
  => /\ Cardinality(Indices("record")) = options.limit
     /\ TheSummary.keysSelected = options.limit

(* C2: the keys-selected counter, and with it the number of record events,
   never exceeds the configured select-limit. *)
C2_SelectedWithinLimit ==
  /\ keysSelected <= options.limit
  /\ Cardinality(Indices("record")) <= options.limit

(* C3 as stated: with scan-limit M smaller than the keyspace and page size P,
   keysScanned is at most M + (P - 1). *)
C3_ScanLimitBoundAsStated ==
  options.scanLimit < Len(keyspace)
  => keysScanned <= options.scanLimit + (options.scanBatch - 1)

(* C3 amended: with scan-limit M smaller than the keyspace and page size P,
   keysScanned is at most max(M, 1) + (P - 1): the first batch is always
   delivered and counted, also when M = 0.  The iterator is paused in the
   handler of the first batch at which keysScanned reaches M, and no batch is
   delivered after that batch, whether or not a key was selected. *)
C3_ScanLimitBound ==
  options.scanLimit < Len(keyspace)
  => /\ keysScanned <= Max(options.scanLimit, 1) + (options.scanBatch - 1)
     /\ (Len(pipelinePromises) >= 1 /\ keysScanned >= options.scanLimit
           => stream = "paused")
     /\ (Len(pipelinePromises) >= 2
           => keysScanned - pipelinePromises[Len(pipelinePromises)].n
                < options.scanLimit)

(* C3 witness: a scan paused by the scan-limit alone, one key past it. *)
C3_Witness ==
  /\ options.scanLimit < Len(keyspace)
  /\ options.scanLimit >= 1
  /\ options.scanBatch = 2
  /\ keysScanned = options.scanLimit + 1
  /\ stream = "paused"
  /\ ~atSelectLimit
  /\ keysSelected = 0
  /\ Emitted("summary")

(* C4: once the scanner has emitted an error event, it emits no summary event
   and no end event. *)
C4_NoSummaryAfterError ==
  \A i \in Indices("error") :
    \A j \in DOMAIN events :
      j > i => events[j].type \notin {"summary", "end"}

(* C5: a scan without failure emits one summary, no more, once end-of-scan
   has begun and every enrichment has completed; the summary is the last data
   event, the end event follows it directly and only once, and nothing is
   emitted after the end event. *)
C5_OneSummaryThenEnd ==
  NoFailure
  => /\ \A i \in Indices("summary") :
          i = Len(events) - 1 /\ events[i + 1].type = "end"
     /\ \A i \in Indices("end") :
          i = Len(events) /\ i >= 2 /\ events[i - 1].type = "summary"
     /\ (endScanCalled /\ Pending = {} => Cardinality(Indices("summary")) = 1)

(* C5 witness: a finished scan in which the select-limit was reached and
   records were emitted from two batches before the summary. *)
C5_Witness ==
  /\ NoFailure
  /\ Emitted("end")
  /\ atSelectLimit
  /\ stream = "paused"
  /\ Len(pipelinePromises) >= 3
  /\ Cardinality(Indices("record")) >= 2

(* C6: when the summary is emitted, no enrichment operation dispatched before
   end-of-scan is still in flight, however the operations complete or fail. *)
C6_DrainedBeforeSummary ==
  Emitted("summary") => Pending = {}

(* C7: the summary's keysSelected is the number of record events of the whole
   scan, its keysScanned the number of keys of all delivered batches, and the
   counters keep the values the summary reported. *)
C7_SummaryCountsExact ==
  Emitted("summary")
  => /\ TheSummary.keysSelected = Cardinality(Indices("record"))
     /\ TheSummary.keysScanned = cursor
     /\ TheSummary.keysSelected = keysSelected
     /\ TheSummary.keysScanned = keysScanned

(* The reference predicate of the selector: every configured bound holds,
   inclusively, and no-expiry is either not requested or the ttl is -1. *)
Reference(idletime, ttl, o) ==
  /\ \A b \in o.maxIdle : idletime <= b
  /\ \A b \in o.maxTTL : ttl <= b
  /\ \A b \in o.minIdle : idletime >= b
  /\ \A b \in o.minTTL : ttl >= b
  /\ (o.noExpiry = {TRUE} => ttl = NoExpiryTTL)

(* C8: while the latch is not set, the selector's decision for a key with a
   numeric idletime equals the reference predicate, for every combination of
   configured bounds. *)
C8_SelectorEqualsReference ==
  (Evaluated /\ keyspace[1].idletime # Null)
  => (Selected(1) <=> Reference(keyspace[1].idletime, keyspace[1].ttl, options))

(* C9: when no-expiry is not requested (noExpiry absent, or present with the
   value false), a key that satisfies the configured idle and TTL bounds is
   selected whatever its TTL. *)
C9_NoExpiryNotRequested ==
  (/\ Evaluated
   /\ keyspace[1].idletime # Null
   /\ options.noExpiry # {TRUE}
   /\ \A b \in options.maxIdle : keyspace[1].idletime <= b
   /\ \A b \in options.maxTTL : keyspace[1].ttl <= b
   /\ \A b \in options.minIdle : keyspace[1].idletime >= b
   /\ \A b \in options.minTTL : keyspace[1].ttl >= b)
  => Selected(1)

(* C10: when no-expiry is requested, every emitted record has ttl = -1, and a
   key is selected only if the configured maxTTL and minTTL admit -1 and the
   idle bounds admit its idletime. *)
C10_NoExpiryNecessary ==
  options.noExpiry = {TRUE}
  => \A i \in Indices("record") :
       /\ events[i].ttl = {NoExpiryTTL}
       /\ keyspace[events[i].key].ttl = NoExpiryTTL
       /\ \A b \in options.maxTTL : NoExpiryTTL <= b
       /\ \A b \in options.minTTL : NoExpiryTTL >= b

(* C10 witness: no-expiry together with a TTL bound that admits -1 selects
   a key without expiry. *)
C10_Witness ==
  /\ options.noExpiry = {TRUE}
  /\ options.maxTTL = {0}
  /\ options.minTTL = {NoExpiryTTL}
  /\ Evaluated
  /\ Selected(1)

----------------------------------------------------------------------------
(* C11: a key whose idle time comes back null, because it vanished between
   the iteration and the enrichment request, is never selected, whatever the
   options are, the options without any bound included. *)
C11_VanishedKeyNeverSelected ==
  (Evaluated /\ keyspace[1].idletime = Null) => ~Selected(1)

----------------------------------------------------------------------------
(* Construction *)

(* The raw options are missing, have no host, have a missing or non-numeric
   port, a malformed timeframe or an unrecognized key. *)
InvalidConfiguration ==
  \/ ~rawOptions.given
  \/ rawOptions.host = {}
  \/ rawOptions.port = {}
  \/ \E q \in rawOptions.port : q \notin {"6379", "80"}
  \/ \E t \in rawOptions.maxIdle \cup rawOptions.maxTTL \cup rawOptions.minIdle
                 \cup rawOptions.minTTL : t.unit \notin {"", "s", "m", "h", "d", "w"}
  \/ rawOptions.foo

(* Nothing was asked of the store: no connection, no SCAN, no pipeline. *)
NoIO ==
  /\ redis = NoRedis
  /\ stream = "none"
  /\ cursor = 0
  /\ batches = <<>>
  /\ pipelinePromises = <<>>

(* C12: constructing a scanner from a configuration that is missing, has no
   host, has a missing or non-numeric port, a malformed timeframe bound or an
   unrecognized key throws a TypeError before any connection is opened and
   before any request is issued, and no data, end or error event is ever
   emitted. *)
C12_InvalidConfigurationThrows ==
  (InvalidConfiguration /\ scanner # "new") =>
    (scanner = "threw" /\ NoIO /\ events = <<>>)

C12_Witness ==
  /\ scanner = "threw"
  /\ rawOptions.host # {}
  /\ rawOptions.port = {"6379"}
  /\ ~rawOptions.foo
  /\ rawOptions.redisMaster = {}
  /\ rawOptions.limit = {}
  /\ rawOptions.maxIdle = {[n |-> 0, unit |-> "foo"]}
  /\ rawOptions.maxTTL = {}
  /\ rawOptions.minIdle = {}
  /\ rawOptions.minTTL = {}

(* C13: once the configuration passes validation, construction returns a
   scanner in either addressing mode, with or without a master name: the
   connection is never a synchronous throw. *)
C13_ValidConfigurationConnects ==
  (~sanitizeThrows(rawOptions) /\ scanner # "new") => scanner = "scanning"

(* C14: with a master name the scanner connects through the sentinel at
   host:port to a slave of the named master; without one it connects directly
   to host:port. *)
C14_SentinelSlaveOrDirect ==
  (~sanitizeThrows(rawOptions) /\ scanner # "new") =>
    IF rawOptions.redisMaster # {}
    THEN redis.mode = "sentinel" /\ redis.role = "slave"
    ELSE redis.mode = "direct"

(* C15: a scanner whose store is unreachable at the configured address
   eventually emits an error event, and not before construction has
   returned: nothing is emitted by the constructor call itself. *)
C15_UnreachableEventuallyError ==
  /\ [][Construct => events' = <<>>]_vars
  /\ ((scanner = "scanning" /\ ~reachable) ~> Emitted("error"))

C15_Witness ==
  /\ scanner = "scanning"
  /\ ~reachable
  /\ Emitted("error")
  /\ cursor = 0

----------------------------------------------------------------------------
(* C16 *)

(* C16 as stated: no summary event carries error information, and every
   failed enrichment round trip is reported by an error event. *)
C16_FailureNeverInSummary ==
  /\ Emitted("summary") => ~TheSummary.error
  /\ (Rejected # {} /\ Emitted("summary")) => Emitted("error")

(* C16, amended: the failure of an enrichment round trip is folded into the
   summary; the summary carries the error exactly when a round trip failed,
   and error events come from the connection alone. *)
C16_FailureFoldedIntoSummary ==
  /\ Emitted("summary") => (TheSummary.error <=> Rejected # {})
  /\ Emitted("error") <=> errorEmitted

C16_Witness ==
  /\ Emitted("summary")
  /\ TheSummary.error
  /\ Rejected # {}
  /\ ~Emitted("error")
  /\ Emitted("end")

----------------------------------------------------------------------------
(* C19, C20 *)

(* A TTL-dependent option is configured. *)
TTLRequested ==
  options.noExpiry # {} \/ options.maxTTL # {} \/ options.minTTL # {}

(* C19: each delivered batch has exactly one round trip, which asks the idle
   time of every key of the batch and the TTL of every key iff noExpiry,
   maxTTL or minTTL is configured; a record carries a ttl iff the TTL was
   asked. *)
C19_OneRoundTripPerBatch ==
  /\ Len(pipelinePromises) = Len(batches)
  /\ \A p \in DOMAIN pipelinePromises :
       /\ pipelinePromises[p].idle = batches[p]
       /\ pipelinePromises[p].ttl = (IF TTLRequested THEN batches[p] ELSE 0)
  /\ \A i \in Indices("record") : (events[i].ttl # {}) <=> TTLRequested

C19_Witness ==
  /\ TTLRequested
  /\ Len(batches) = 2
  /\ batches[1] = 2
  /\ pipelinePromises[1].ttl = 2
  /\ \E i \in Indices("record") : events[i].ttl = {NoExpiryTTL}

RECURSIVE Sum(_)
Sum(q) == IF q = <<>> THEN 0 ELSE q[1] + Sum(Tail(q))

(* C20: keysScanned is the sum of the sizes of the batches delivered so far,
   counted at delivery: the keys of a batch whose round trip has not
   returned, and the keys that will be skipped because the latch is set, are
   counted. *)
C20_ScannedIsSumOfBatches ==
  keysScanned = Sum(batches)

C20_Witness ==
  /\ atSelectLimit
  /\ Pending # {}
  /\ \E p \in Pending : pipelinePromises[p].n = 2
  /\ keysScanned = 3
  /\ keysSelected = 1

----------------------------------------------------------------------------
(* C17, C18 *)

(* The keys of the batch of promise p. *)
BatchKeys(p) ==
  pipelinePromises[p].first .. (pipelinePromises[p].first + pipelinePromises[p].n - 1)

(* C17: scanLimit does not truncate the evaluation of a delivered batch:
   a matching key of an evaluated batch is selected unless the select-limit
   latch is set; four matching keys delivered in one batch with limit 3 and
   scanLimit 2 give exactly 3 records, more than scanLimit. *)
C17_LimitsIndependent ==
  /\ \A p \in DOMAIN pipelinePromises :
       pipelinePromises[p].state = "fulfilled" =>
         \A k \in BatchKeys(p) : (k \in Matching /\ ~Selected(k)) => atSelectLimit
  /\ ( /\ options.limit = ScenarioLimit
       /\ options.scanLimit = ScenarioScanLimit
       /\ batches = <<ScenarioKeys>>
       /\ Matching = 1..ScenarioKeys
       /\ pipelinePromises[1].state = "fulfilled" )
     => Cardinality(Indices("record")) = ScenarioLimit

C17_Witness ==
  /\ options.limit = ScenarioLimit
  /\ options.scanLimit = ScenarioScanLimit
  /\ batches = <<ScenarioKeys>>
  /\ Matching = 1..ScenarioKeys
  /\ Cardinality(Indices("record")) = 3
  /\ Emitted("end")

(* The scan has ended: a summary directly followed by the end, and for an
   empty keyspace no record and a summary of 0 scanned, 0 selected. *)
Terminated ==
  /\ \E i \in Indices("summary") : (i + 1) \in Indices("end")
  /\ Len(keyspace) = 0 =>
       /\ Indices("record") = {}
       /\ TheSummary.keysScanned = 0
       /\ TheSummary.keysSelected = 0

(* C18: a scan whose requests are all answered eventually terminates with a
   summary followed by the end, on exhaustion as on a limit, the empty
   keyspace included. *)
C18_AnsweredScanTerminates ==
  <>(Rejected # {} \/ Terminated)

C18_Witness ==
  /\ Len(keyspace) = 0
  /\ stream = "ended"
  /\ Rejected = {}
  /\ Terminated

----------------------------------------------------------------------------
(* C21 .. C25 *)

(* C21: batches are delivered while earlier enrichments are in flight, and
   every dispatched enrichment is among the promises end-of-scan waits for:
   once endScan has been called it awaits all of pipelinePromises, and a
   summary of a scan without a failed round trip leaves none pending. *)
C21_OverlapTracked ==
  /\ endScanCalled => awaited = Len(pipelinePromises)
  /\ (Emitted("summary") /\ Rejected = {}) => Pending = {}

C21_Witness ==
  /\ Cardinality(Pending) >= 2
  /\ stream = "flowing"
  /\ ~endScanCalled

(* C22: after the error event no batch is delivered, no enrichment is
   dispatched, no record is emitted and the end-of-scan sequence does not
   run. *)
C22_ErrorTerminatesScan ==
  [][Emitted("error") =>
       /\ batches' = batches
       /\ Len(pipelinePromises') = Len(pipelinePromises)
       /\ events' = events]_vars

(* C23: once the summary has been emitted the connection of the scan is
   closed. *)
C23_ConnectionReleased ==
  Emitted("summary") => redis.status = "closed"

(* The promise whose batch holds key k. *)
BatchOf(k) == CHOOSE p \in DOMAIN pipelinePromises : k \in BatchKeys(p)

(* C24: the records of the keys of one batch are emitted in the order of
   the keys in the batch. *)
C24_BatchOrder ==
  \A i, j \in Indices("record") :
    (i < j /\ BatchOf(events[i].key) = BatchOf(events[j].key))
      => events[i].key < events[j].key

(* Two records of the second batch, in key order, ahead of the record of the
   first batch, whose enrichment completed later. *)
C24_Witness ==
  /\ batches = <<1, 2>>
  /\ Len(events) >= 3
  /\ events[1].type = "record" /\ events[1].key = 2
  /\ events[2].type = "record" /\ events[2].key = 3
  /\ events[3].type = "record" /\ events[3].key = 1

(* C25: for every batch and index i the values read at the indices computed
   for key i are the replies of the store for key i, with one and with two
   requests per key, and a record carries the values of its key. *)
C25_PositionalAlignment ==
  /\ \A p \in DOMAIN pipelinePromises :
       LET op == pipelinePromises[p]
           results == Replies(op.first, op.n, options)
       IN \A i \in 0..(op.n - 1) :
            /\ Idletime(results, i, options) = keyspace[op.first + i].idletime
            /\ TTLRequested => Ttl(results, i, options) = keyspace[op.first + i].ttl
  /\ \A e \in Indices("record") :
       /\ events[e].idletime = keyspace[events[e].key].idletime
       /\ TTLRequested => events[e].ttl = {keyspace[events[e].key].ttl}

C25_Witness ==
  /\ TTLRequested
  /\ batches = <<1, 2>>
  /\ keyspace[2] # keyspace[3]
  /\ pipelinePromises[2].state = "fulfilled"
  /\ \E e \in Indices("record") : events[e].key = 3 /\ events[e].ttl = {keyspace[3].ttl}

----------------------------------------------------------------------------
(* C26 .. C30 *)

(* C26: without a limit the select-limit is 1000 and at most 1000 records
   are emitted (at most limit records for every limit >= 1); without a
   scanLimit the keys scanned are unbounded, the stream being paused only by
   the latch and ending only when the keyspace is exhausted. *)
C26_DefaultLimits ==
  scanner = "scanning" =>
    /\ rawOptions.limit = {} =>
         (options.limit = 1000 /\ Cardinality(Indices("record")) <= 1000)
    /\ options.limit >= 1 => Cardinality(Indices("record")) <= options.limit
    /\ rawOptions.scanLimit = {} =>
         /\ options.scanLimit = Infinity
         /\ keysScanned < options.scanLimit
         /\ stream = "paused" => atSelectLimit
         /\ stream \in {"drained", "ended"} => cursor = Len(keyspace)

C26_Witness ==
  /\ scanner = "scanning"
  /\ rawOptions.limit = {}
  /\ rawOptions.scanLimit = {}
  /\ stream = "ended"
  /\ keysScanned = 2
  /\ Cardinality(Indices("record")) = 2

(* C27: no event is emitted before the constructor has returned, neither
   before the call nor by the call itself. *)
C27_NoEventBeforeReturn ==
  /\ [](scanner = "new" => events = <<>>)
  /\ [][scanner = "new" => events' = <<>>]_vars

C27_Witness ==
  /\ scanner = "scanning"
  /\ ~reachable
  /\ events = <<ErrorEvent>>

(* C28: keysSelected <= keysScanned, and a key of a delivered batch has at
   most one record. *)
C28_SelectedWithinScanned ==
  /\ keysSelected <= keysScanned
  /\ \A i, j \in Indices("record") : events[i].key = events[j].key => i = j
  /\ \A i \in Indices("record") : events[i].key <= cursor

C28_Witness ==
  /\ keysScanned = 3
  /\ keysSelected = 3
  /\ Cardinality(Indices("record")) = 3

(* C29: the select-limit latch, once set, stays set, and for a limit >= 1
   it is set exactly when keysSelected >= limit. *)
C29_LatchMonotonic ==
  /\ [](options.limit >= 1 => (atSelectLimit <=> keysSelected >= options.limit))
  /\ [][atSelectLimit => atSelectLimit']_vars

C29_Witness ==
  /\ options.limit = 2
  /\ atSelectLimit
  /\ keysSelected = 2
  /\ Len(pipelinePromises) = 3
  /\ Pending = {}
  /\ Rejected = {}

(* C30: a batch delivered with the latch set is counted, its enrichment is
   dispatched and awaited, the stream is paused and endScan called in the
   same handler; no batch follows a pause, and nothing is selected once the
   latch is set. *)
C30_OneBatchAfterLatch ==
  [][ /\ (atSelectLimit /\ batches' # batches) =>
           /\ stream' = "paused"
           /\ endScanCalled'
           /\ Len(pipelinePromises') = Len(pipelinePromises) + 1
           /\ awaited' = Len(pipelinePromises')
           /\ keysScanned' = keysScanned + batches'[Len(batches')]
      /\ stream = "paused" => batches' = batches
      /\ atSelectLimit =>
           /\ keysSelected' = keysSelected
           /\ Indices("record")' = Indices("record") ]_vars

(* The batch delivered after the latch held a matching key, which was not
   selected; the scan has ended. *)
C30_Witness ==
  /\ atSelectLimit
  /\ stream = "paused"
  /\ options.scanLimit = Infinity
  /\ Len(pipelinePromises) = 2
  /\ Pending = {}
  /\ Rejected = {}
  /\ \E k \in BatchKeys(2) : k \in Matching /\ ~Selected(k)
  /\ Emitted("end")

----------------------------------------------------------------------------
(* C31, C32 *)

(* C31: at most one error event is emitted per scan, however often the
   client reports a failure. *)
C31_AtMostOneError ==
  Cardinality(Indices("error")) <= 1

(* The error was emitted before the first batch, and the client, which
   reconnected, stays able to report failures while the scan goes on to its
   end. *)
C31_Witness ==
  /\ errorEmitted
  /\ Len(events) >= 3
  /\ events[1].type = "error"
  /\ Cardinality(Indices("error")) = 1
  /\ Emitted("end")
  /\ ENABLED RedisError

(* The options of the same scan of a store without a password. *)
Public(o) == [o EXCEPT !.password = {}]

(* C32: no event carries the password: the summary echoes every option but
   the password, and the records, the summary and the decisions that lead to
   them are those of the scan configured alike without the password. *)
C32_PasswordNeverEmitted ==
  /\ \A i \in DOMAIN events : "password" \notin DOMAIN events[i].echo
  /\ \A i \in Indices("summary") :
       /\ DOMAIN events[i].echo = DOMAIN options \ {"password"}
       /\ \A f \in DOMAIN events[i].echo : events[i].echo[f] = options[f]
       /\ events[i].echo = Omit(Public(options), "password")
  /\ \A i \in Indices("record") :
       events[i] = RecordEvent(events[i].key, keyspace[events[i].key].idletime,
                               keyspace[events[i].key].ttl, Public(options))
  /\ \A k \in DOMAIN keyspace, latch \in BOOLEAN :
       selectKey(keyspace[k].idletime, keyspace[k].ttl, latch, options)
         <=> selectKey(keyspace[k].idletime, keyspace[k].ttl, latch, Public(options))
  /\ atLimit(atSelectLimit, keysScanned, options)
       <=> atLimit(atSelectLimit, keysScanned, Public(options))
  /\ checkTTL(options) <=> checkTTL(Public(options))

C32_Witness ==
  /\ options.password = {"secret"}
  /\ redis.password = {"secret"}
  /\ Emitted("record")
  /\ Emitted("summary")
  /\ TheSummary.echo.limit = options.limit
  /\ TheSummary.echo.noExpiry = {TRUE}

====
